---- MODULE Spec2Model ----
(***************************************************************************)
(* Model of the Ollama HTTP client of Qwen3-DevAgent-Core                  *)
(* (src/api/ollama_api.py): request construction, the HTTP exchange, the   *)
(* error mapping of the except clauses and the two NDJSON read loops.      *)
(* Spec follows one client call; a streaming call is a Python generator    *)
(* that advances one step per request of its consumer, directly or through *)
(* ModelManager.generate_response (src/models/model_manager.py).           *)
(* SpecSession follows several callers using one instance concurrently.    *)
(***************************************************************************)
EXTENDS Integers, Sequences, FiniteSets, TLC

\* ------------------------------------------------------------------ bounds
\* Longest response stream (number of lines) the server sends.
MaxLines == 3

\* Longest response stream in a session of concurrent calls.
MaxSessionLines == 1

\* Number of callers that use one client instance at the same time.
NCalls == 2

\* Messages the user sends in a chat session.
MaxSends == 2

\* Installations started in a session.
MaxInstalls == 1

\* Lines and chunks a child process writes to either of its pipes.
MaxOutput == 2

\* Chunks a pipe holds before a write to it blocks.
PipeCapacity == 1

\* ------------------------------------------------------- program constants
MAX_TOKENS == 2048
REQUEST_TIMEOUT == 30
OLLAMA_API_MODELS == "/api/tags"
OLLAMA_API_GENERATE == "/api/generate"
OLLAMA_API_CHAT == "/api/chat"

\* ------------------------------------------------------------------ inputs
EmptyDict == [k \in {} |-> 0]

\* dict.update(other)
Update(d, other) ==
    [k \in DOMAIN d \cup DOMAIN other |-> IF k \in DOMAIN other THEN other[k] ELSE d[k]]

\* The dicts a caller may pass as params: each key absent or present.
MaxTokensOpts == {EmptyDict, [max_tokens |-> 0], [max_tokens |-> 512]}
StreamOpts == {EmptyDict, [stream |-> FALSE]}
TemperatureOpts == {EmptyDict, [temperature |-> 7]}

ParamDicts ==
    {Update(Update(a, b), c) : a \in MaxTokensOpts, b \in StreamOpts, c \in TemperatureOpts}

\* params is None (<<>>) or a dict (<<d>>).
ParamsInputs == {<<>>} \cup {<<d>> : d \in ParamDicts}

Messages == <<[role |-> "user", content |-> "hi"]>>

\* JSON objects a server may send.
StreamObjects ==
    { [response |-> "Hel", done |-> FALSE],
      [response |-> "lo", done |-> FALSE],
      [response |-> "lo"],
      [done |-> TRUE],
      [response |-> "", done |-> TRUE] }

\* One line as delivered by response.iter_lines(): blank, a JSON text, or
\* bytes that are not JSON.
BlankLine == [kind |-> "blank", obj |-> EmptyDict]
BadLine   == [kind |-> "bad", obj |-> EmptyDict]
JsonLine(o) == [kind |-> "json", obj |-> o]
Lines == {BlankLine, BadLine} \cup {JsonLine(o) : o \in StreamObjects}

RECURSIVE SeqsUpTo(_, _)
SeqsUpTo(S, n) ==
    IF n = 0 THEN {<<>>}
    ELSE LET shorter == SeqsUpTo(S, n - 1)
         IN shorter \cup {Append(s, x) : s \in {t \in shorter : Len(t) = n - 1}, x \in S}

Streams == SeqsUpTo(Lines, MaxLines)

\* How the body iterator ends after its last line: exhausted, or a
\* transport error raised by iter_lines (requests ChunkedEncodingError).
Endings == {"eof", "error"}

\* Bodies of non-streaming responses.
Bodies ==
    { JsonLine([response |-> "Hello", done |-> TRUE]),
      JsonLine([models |-> <<"qwen3:latest">>]),
      JsonLine([message |-> "hi", done |-> TRUE]),
      BadLine }

\* What requests.post / requests.get followed by raise_for_status does.
Outcomes == {"ok", "connfail", "timeout", "badstatus"}

\* ------------------------------------------------------------------- state
VARIABLES
    requestsNew,     \* build: requests >= 2.27 (its JSONDecodeError is a RequestException)
    promptFinalize,  \* build: dropping the last reference finalizes at once (refcounting)
    op,              \* operation of the current call
    params,          \* the caller's params argument
    request_data,    \* body of the HTTP request of this call
    sent,            \* the HTTP requests issued by this call, in order
    outcome,         \* outcome of the exchange
    body,            \* non-streaming response body
    lines,           \* streaming response: lines the transport will deliver
    ending,          \* streaming response: how iteration ends after lines
    pos,             \* number of lines taken from the transport
    yielded,         \* elements handed to the consumer
    pc,              \* idle / created / suspended / returned / raised / closed
    result,          \* return value of a non-streaming call: <<>> or <<v>>
    error,           \* exception raised to the caller
    conn,            \* none / open / released
    args,            \* params and messages as they were when the call was made
    messages,        \* the caller's messages list
    via,             \* who consumes generate_stream: "client" caller or "manager"
    max_tokens_arg,  \* max_tokens argument of generate_response: <<>> (None) or <<m>>
    delivered,       \* elements generate_response handed to its consumer
    worker,          \* ModelResponseThread.run: full_response, signals emitted, pc
    self,            \* session: the instance's fields (the three endpoint URLs)
    calls,           \* session: per caller, its call's inputs, progress and outputs
    frames,          \* session: per frame, the request_data local of the method
    server_models,   \* session: the tags the server holds
    changed,         \* session: per caller, install/remove since it listed the models
    active_model,      \* ChatPanel.active_model: <<>> (None) or <<id>>
    send_button,       \* ChatPanel.send_button is enabled
    generation_label,  \* ChatPanel.generation_label is visible
    chat_messages,     \* ChatPanel.messages
    system_message,    \* text of the newest system message in the chat area
    response_threads,  \* the ModelResponseThread objects made so far; the last
                       \* one is ChatPanel.response_thread
    qt_events,         \* event queue of the GUI thread: queued signals, deferred deletes
    aborted,           \* the process was ended by qFatal
    ollama_tags,       \* names of the models the Ollama server holds
    installed_models,  \* ModelManager.installed_models
    last_refresh,      \* outcome and caller of the latest refresh_installed_models
    installs,          \* the installation threads started so far
    model_items,       \* ModelListWidget.model_items: per id, the state of its widget
    selected,          \* ModelListWidget.model_list.selectedItems(): <<>> or <<id>>
    current_model,     \* MainWindow.current_model: <<>> (None) or <<id>>
    install_button,    \* ModelListWidget.install_button is enabled
    run_button         \* ModelListWidget.run_button and remove_button are enabled

vars == <<requestsNew, promptFinalize, op, params, request_data, sent, outcome,
          body, lines, ending, pos, yielded, pc, result, error, conn,
          args, messages, via, max_tokens_arg, delivered, worker,
          self, calls, frames, server_models, changed,
          active_model, send_button, generation_label, chat_messages, system_message,
          response_threads, qt_events, aborted,
          ollama_tags, installed_models, last_refresh, installs, model_items,
          selected, current_model, install_button, run_button>>

single == <<requestsNew, promptFinalize, op, params, request_data, sent, outcome,
            body, lines, ending, pos, yielded, pc, result, error, conn,
            args, messages, via, max_tokens_arg, delivered, worker>>
session == <<self, calls, frames, server_models, changed>>
panel == <<active_model, send_button, generation_label, chat_messages, system_message,
          response_threads, qt_events, aborted>>
catalog == <<ollama_tags, installed_models, last_refresh, installs, model_items,
            selected, current_model, install_button, run_button>>
app == <<panel, catalog>>

build == <<requestsNew, promptFinalize>>
manager == <<via, max_tokens_arg, delivered>>

NoError == [type |-> "none", prefix |-> "", text |-> ""]

\* ----------------------------------------------------------------- helpers
\* dict.get(key, default)
Get(d, k, default) == IF k \in DOMAIN d THEN d[k] ELSE default

\* Python truthiness of a params argument: None and {} are falsy.
Truthy(p) == p # <<>> /\ DOMAIN p[1] # {}

WithParamsKnownOnly(base, p) ==
    IF Truthy(p)
    THEN Update(base, [k \in DOMAIN p[1] \cap {"max_tokens", "stream"} |-> p[1][k]])
    ELSE base

\* request_data after "if params: update" and the max_tokens default.
WithParams(base, p) == IF Truthy(p) THEN Update(base, p[1]) ELSE base

DefaultMaxTokensForced(d) == Update(d, [max_tokens |-> MAX_TOKENS])

DefaultMaxTokens(d) ==
    IF "max_tokens" \notin DOMAIN d
    THEN Update(d, [max_tokens |-> MAX_TOKENS])
    ELSE d

GenerateBody(p) ==
    DefaultMaxTokens(WithParams([model |-> "m", prompt |-> "p"], p))

GenerateStreamBody(p) ==
    DefaultMaxTokens(WithParams([model |-> "m", prompt |-> "p", stream |-> TRUE], p))

ChatBody(p) == WithParams([model |-> "m", messages |-> Messages], p)

ChatStreamBody(p) ==
    WithParams([model |-> "m", messages |-> Messages, stream |-> TRUE], p)

\* The exception an unsuccessful exchange raises inside the try block.
TransportError(o) ==
    IF o = "connfail" THEN [cls |-> "ConnectionError", text |-> "connection refused"]
    ELSE IF o = "timeout" THEN [cls |-> "Timeout", text |-> "timed out"]
    ELSE [cls |-> "HTTPError", text |-> "500 Server Error"]

StreamBroken == [cls |-> "ChunkedEncodingError", text |-> "connection broken"]

\* json.loads(line) on bytes that are not JSON.
JsonLoadsError == [cls |-> "json.JSONDecodeError", text |-> "Expecting value"]

\* response.json() on a body that is not JSON.
ResponseJsonError(new) ==
    IF new THEN [cls |-> "requests.JSONDecodeError", text |-> "Expecting value"]
    ELSE JsonLoadsError

\* Subclasses of requests.exceptions.RequestException.
RequestException ==
    {"ConnectionError", "Timeout", "HTTPError", "ChunkedEncodingError",
     "requests.JSONDecodeError"}

Prefix(o) ==
    IF o = "list_models" THEN "could not list models"
    ELSE IF o = "generate" THEN "could not get model response"
    ELSE IF o = "generate_stream" THEN "could not get streamed response"
    ELSE IF o = "chat" THEN "could not get chat response"
    ELSE "could not get streamed chat response"

ExceptNoText(o, exc) ==
    IF exc.cls \in RequestException
    THEN [type |-> "Exception", prefix |-> Prefix(o), text |-> ""]
    ELSE [type |-> exc.cls, prefix |-> "", text |-> exc.text]

\* except requests.exceptions.RequestException as e: raise Exception(f"...: {str(e)}")
\* Any other exception leaves the method unchanged.
Except(o, exc) ==
    IF exc.cls \in RequestException
    THEN [type |-> "Exception", prefix |-> Prefix(o), text |-> exc.text]
    ELSE [type |-> exc.cls, prefix |-> "", text |-> exc.text]

\* The caller's objects after a method has built its request: request_data is
\* a new dict and params is only read from; messages is stored, not changed.
ParamsAfterAliased(p, data) == IF Truthy(p) THEN <<data>> ELSE p

ParamsAfter(p, data) == p

MessagesAfter(msgs) == msgs

\* The messages argument of operation o (none for the other operations).
MessagesOf(o) == IF o \in {"chat", "chat_stream"} THEN Messages ELSE <<>>

HttpRequest(method, url, streamed) ==
    [method |-> method, url |-> url, stream |-> streamed, timeout |-> REQUEST_TIMEOUT]

\* The single requests.get / requests.post call of a method: the request is
\* put on the wire once, whatever the outcome oc.
SendRetrying(s, req, oc) ==
    IF oc = "ok" THEN Append(s, req) ELSE Append(Append(s, req), req)

Send(s, req, oc) == Append(s, req)

\* Connection state after a non-streaming exchange: requests reads the whole
\* body and hands the connection back before post/get returns.
ConnAfterExchange(o) == IF o = "connfail" THEN "none" ELSE "released"

\* Connection still held by a response when the frame that owns it goes
\* away: the code never closes it, the runtime's finalizer may.
Finalize(c, prompt) == IF c = "open" /\ prompt THEN "released" ELSE c

Ended == {"returned", "raised", "closed"}

\* The client keeps nothing between calls (only the three endpoint URLs), so
\* a behaviour follows one call from its start to its end.
CanCall == pc = "idle"

\* ------------------------------------------------ ModelResponseThread.run
\* Text is kept as the list of its non-empty pieces, so that str + str is
\* computed and "" is its neutral element.
Str(t) == IF t = "" THEN <<>> ELSE <<t>>
Concat(s, t) == s \o Str(t)

\* str(e) of the exception a call ended with.
ErrorText(e) == IF e.prefix = "" THEN Str(e.text) ELSE <<e.prefix, ": ">> \o Str(e.text)

Signal(name, payload) == [sig |-> name, payload |-> payload]

\* full_response = "" at the top of the try block.
RunStart == [full_response |-> <<>>, emitted |-> <<>>, pc |-> "running"]

RunTokenDropped(r, token) ==
    [r EXCEPT !.emitted = Append(@, Signal("token_received", Str(token)))]

\* One pass of the loop body: full_response += token; token_received.emit(token)
RunToken(r, token) ==
    [r EXCEPT !.full_response = Concat(@, token),
              !.emitted = Append(@, Signal("token_received", Str(token)))]

\* The generator is exhausted: response_received.emit(full_response)
RunDone(r) ==
    [r EXCEPT !.emitted = Append(@, Signal("response_received", r.full_response)),
              !.pc = "finished"]

\* except Exception as e: response_error.emit(str(e))
RunFailed(r, text) ==
    [r EXCEPT !.emitted = Append(@, Signal("response_error", text)),
              !.pc = "finished"]

\* ------------------------------------------------------- models and names
\* A model name is kept as its pieces, ":" being a piece of its own.
\* Two entries of config.SUPPORTED_MODELS: one whose install_command pulls
\* the id (as seven others do) and the one that pulls another name.
SUPPORTED_MODELS ==
    << [id |-> "qwen3", name |-> "Qwen3",
        install_command |-> << <<"ollama">>, <<"pull">>, <<"qwen3">> >>],
       [id |-> "deepseek-coder-v2", name |-> "DeepSeek Coder V2",
        install_command |-> << <<"ollama">>, <<"pull">>, <<"deepseek-coder", ":", "v2">> >>] >>

ModelIds == {SUPPORTED_MODELS[i].id : i \in DOMAIN SUPPORTED_MODELS}
ModelData(id) == CHOOSE m \in {SUPPORTED_MODELS[i] : i \in DOMAIN SUPPORTED_MODELS} : m.id = id

\* The name "ollama pull <name>" asks for: the last word of the command.
Pulled(model_data) == model_data.install_command[Len(model_data.install_command)]

\* Server states a session may start in.
InitialTags == {{}, {<<"qwen3", ":", "latest">>}}

\* One element of the "models" array of /api/tags; a descriptor may come
\* without its name.
Descriptor(name) == [name |-> name]
Nameless == [size |-> 0]

RECURSIVE Listing(_)
Listing(tags) ==
    IF tags = {} THEN <<>>
    ELSE LET n == CHOOSE t \in tags : TRUE IN <<Descriptor(n)>> \o Listing(tags \ {n})

\* What OllamaAPI.list_models gives the manager: an exception, or the value
\* of "models", which is the server's listing or one with a descriptor that
\* lacks its name.
ListAnswers(tags) ==
    { [raised |-> TRUE, models |-> <<>>],
      [raised |-> FALSE, models |-> Listing(tags)],
      [raised |-> FALSE, models |-> <<Nameless>> \o Listing(tags)],
      [raised |-> FALSE, models |-> Listing(tags) \o <<Nameless>>] }

\* name.split(':')[0]: the text before the first ":".
Key(name) ==
    LET colons == {i \in 1..Len(name) : name[i] = ":"}
        first == IF colons = {} THEN Len(name) + 1
                 ELSE CHOOSE i \in colons : \A j \in colons : i <= j
    IN IF first = 1 THEN "" ELSE name[1]

SetItem(d, k, v) == [x \in DOMAIN d \cup {k} |-> IF x = k THEN v ELSE d[x]]

\* The for loop of refresh_installed_models from descriptor i on: it stops
\* with KeyError at a descriptor without name.
RECURSIVE RefreshLoop(_, _, _)
RefreshLoop(d, ms, i) ==
    IF i > Len(ms) THEN [installed |-> d, ok |-> TRUE]
    ELSE IF "name" \notin DOMAIN ms[i] THEN [installed |-> d, ok |-> FALSE]
    ELSE RefreshLoop(SetItem(d, Key(ms[i].name), ms[i]), ms, i + 1)

\* refresh_installed_models: installed_models after the call and the value
\* returned.  The dict is emptied once list_models has returned, before the
\* loop.
Refresh(old, answer) ==
    IF answer.raised THEN [installed |-> old, ok |-> FALSE]
    ELSE RefreshLoop(EmptyDict, answer.models, 1)

\* refresh_model_list: one new widget per supported model, installed if its
\* id is a key of get_installed_models(); no widget is in installing state.
Items(installed) ==
    [id \in ModelIds |-> [is_installed |-> id \in DOMAIN installed, installing |-> FALSE]]

\* ------------------------------------------------------------- chat texts
Prompts == {"", "hi"}

\* The token sequences a generation of a chat session may yield, and the
\* model the chat is held with.
ChatStreams == {<<>>, <<"Hi">>}
ChatModels == {"qwen3"}
ChatErrors == {<<"could not get streamed response", ": ", "connection refused">>}

Message(role, content, k) == [role |-> role, content |-> content, of |-> k]
ActivatedMessage(id) == <<"activated: ", ModelData(id).name>>
ClearedMessage(m) == IF m = <<>> THEN <<"cleared">> ELSE <<"cleared: ", ModelData(m[1]).name>>
ErrorMessage(text) == <<"generation error: ">> \o text

\* ------------------------------------------------------------------- Init
\* OllamaAPI.__init__ without base_url.
InitSelf ==
    [api_models |-> OLLAMA_API_MODELS, api_generate |-> OLLAMA_API_GENERATE,
     api_chat |-> OLLAMA_API_CHAT]

\* A caller that has not called yet.
IdleCall ==
    [pc |-> "idle", op |-> "none", params |-> <<>>, oc |-> "none", body |-> BadLine,
     lines |-> <<>>, nexts |-> 0, pos |-> 0, sent |-> <<>>, yielded |-> <<>>,
     result |-> <<>>, error |-> NoError]

SessionInit ==
    /\ self = InitSelf
    /\ calls = [i \in 1..NCalls |-> IdleCall]
    /\ frames = [i \in 1..NCalls |-> EmptyDict]
    /\ server_models = <<>>
    /\ changed = [i \in 1..NCalls |-> FALSE]

\* ChatPanel.__init__
ChatInit ==
    /\ active_model = <<>>
    /\ send_button = FALSE
    /\ generation_label = FALSE
    /\ chat_messages = <<>>
    /\ system_message = <<>>
    /\ response_threads = <<>>
    /\ qt_events = <<>>
    /\ aborted = FALSE

\* ModelManager.__init__ refreshes installed_models once; MainWindow.init_ui
\* fills the model list, which refreshes again.  The server holds one of the
\* tag sets in T.
AppStartup(T) ==
    /\ ChatInit
    /\ ollama_tags \in T
    /\ \E a1 \in ListAnswers(ollama_tags), a2 \in ListAnswers(ollama_tags) :
        LET r1 == Refresh(EmptyDict, a1)
            r2 == Refresh(r1.installed, a2)
        IN /\ installed_models = r2.installed
           /\ last_refresh = [ok |-> r2.ok, by |-> "get_installed_models"]
    /\ installs = <<>>
    /\ model_items = Items(installed_models)
    /\ selected = <<>>
    /\ current_model = <<>>
    /\ install_button = FALSE
    /\ run_button = FALSE

CallInit ==
    /\ requestsNew \in BOOLEAN
    /\ promptFinalize \in BOOLEAN
    /\ op = "none"
    /\ params = <<>>
    /\ request_data = EmptyDict
    /\ sent = <<>>
    /\ outcome = "none"
    /\ body = BadLine
    /\ lines = <<>>
    /\ ending = "eof"
    /\ pos = 0
    /\ yielded = <<>>
    /\ pc = "idle"
    /\ result = <<>>
    /\ error = NoError
    /\ conn = "none"
    /\ args = [params |-> <<>>, messages |-> <<>>]
    /\ messages = <<>>
    /\ via = "client"
    /\ max_tokens_arg = <<>>
    /\ delivered = <<>>
    /\ worker = RunStart

\* The state after construction, with a server that holds no model and
\* answers.
Init ==
    /\ SessionInit
    /\ CallInit
    /\ AppStartup({{}})
    /\ last_refresh.ok

\* ------------------------------------------------- non-streaming operations
ListModelsValueWrongKey(data) == Get(data, "model", <<>>)

ListModelsValue(data) == Get(data, "models", <<>>)
GenerateValue(data) == Get(data, "response", "")

ChatValueStripped(data) == [k \in DOMAIN data \ {"done"} |-> data[k]]

ChatValue(data) == data

\* What each method returns from the parsed body.
ReturnValue(o, data) ==
    IF o = "list_models" THEN ListModelsValue(data)
    ELSE IF o = "generate" THEN GenerateValue(data)
    ELSE ChatValue(data)

\* Common shape of list_models / generate / chat: one exchange, then either
\* the wrapped transport error, the JSON error, or the extracted value.
Exchange(o, p, data, req) ==
    \E oc \in Outcomes, b \in Bodies :
        /\ op' = o
        /\ params' = ParamsAfter(p, data)
        /\ args' = [params |-> p, messages |-> MessagesOf(o)]
        /\ messages' = MessagesAfter(MessagesOf(o))
        /\ request_data' = data
        /\ sent' = Send(<<>>, req, oc)
        /\ outcome' = oc
        /\ body' = b
        /\ lines' = <<>>
        /\ ending' = "eof"
        /\ pos' = 0
        /\ yielded' = <<>>
        /\ conn' = ConnAfterExchange(oc)
        /\ IF oc # "ok"
           THEN /\ pc' = "raised"
                /\ result' = <<>>
                /\ error' = Except(o, TransportError(oc))
           ELSE IF b.kind # "json"
           THEN /\ pc' = "raised"
                /\ result' = <<>>
                /\ error' = Except(o, ResponseJsonError(requestsNew))
           ELSE /\ pc' = "returned"
                /\ result' = <<ReturnValue(o, b.obj)>>
                /\ error' = NoError
        /\ UNCHANGED build

list_models ==
    /\ CanCall
    /\ Exchange("list_models", <<>>, EmptyDict,
                HttpRequest("GET", OLLAMA_API_MODELS, FALSE))
    /\ UNCHANGED <<manager, worker>>
    /\ UNCHANGED <<session, app>>

generate ==
    /\ CanCall
    /\ \E p \in ParamsInputs :
        Exchange("generate", p, GenerateBody(p),
                 HttpRequest("POST", OLLAMA_API_GENERATE, FALSE))
    /\ UNCHANGED <<manager, worker>>
    /\ UNCHANGED <<session, app>>

chat ==
    /\ CanCall
    /\ \E p \in ParamsInputs :
        Exchange("chat", p, ChatBody(p),
                 HttpRequest("POST", OLLAMA_API_CHAT, FALSE))
    /\ UNCHANGED <<manager, worker>>
    /\ UNCHANGED <<session, app>>

\* --------------------------------------------------- streaming operations
\* Calling a generator function runs none of its body: the request is
\* built and sent by the first next().
CreateGenerator(o, p) ==
    /\ op' = o
    /\ params' = p
    /\ args' = [params |-> p, messages |-> MessagesOf(o)]
    /\ messages' = MessagesOf(o)
    /\ request_data' = EmptyDict
    /\ sent' = <<>>
    /\ outcome' = "none"
    /\ body' = BadLine
    /\ lines' = <<>>
    /\ ending' = "eof"
    /\ pos' = 0
    /\ yielded' = <<>>
    /\ pc' = "created"
    /\ result' = <<>>
    /\ error' = NoError
    /\ conn' = "none"
    /\ UNCHANGED build

generate_stream ==
    /\ CanCall
    /\ \E p \in ParamsInputs : CreateGenerator("generate_stream", p)
    /\ UNCHANGED <<manager, worker>>
    /\ UNCHANGED <<session, app>>

chat_stream ==
    /\ CanCall
    /\ \E p \in ParamsInputs : CreateGenerator("chat_stream", p)
    /\ UNCHANGED <<manager, worker>>
    /\ UNCHANGED <<session, app>>

\* What running the generator up to its next suspension does.
Yield(i, v) == [ev |-> "yield", pos |-> i, val |-> v, exc |-> JsonLoadsError]
Break(i)    == [ev |-> "break", pos |-> i, val |-> "", exc |-> JsonLoadsError]
Exhaust(i)  == [ev |-> "exhausted", pos |-> i, val |-> "", exc |-> JsonLoadsError]
Raise(i, x) == [ev |-> "raise", pos |-> i, val |-> "", exc |-> x]

EndOfLinesStrict(i, e) == Raise(i, StreamBroken)

\* for line in response.iter_lines() past the last line.
EndOfLines(i, e) == IF e = "eof" THEN Exhaust(i) ELSE Raise(i, StreamBroken)

RECURSIVE GenerateLoopYieldFirst(_, _, _)
GenerateLoopYieldFirst(ls, i, e) ==
    IF i >= Len(ls) THEN EndOfLines(i, e)
    ELSE LET line == ls[i + 1] IN
         IF line.kind = "blank" THEN GenerateLoopYieldFirst(ls, i + 1, e)
         ELSE IF line.kind = "bad" THEN Raise(i + 1, JsonLoadsError)
         ELSE Yield(i + 1, Get(line.obj, "response", ""))

RECURSIVE GenerateLoopBlankEnds(_, _, _)
GenerateLoopBlankEnds(ls, i, e) ==
    IF i >= Len(ls) THEN EndOfLines(i, e)
    ELSE LET line == ls[i + 1] IN
         IF line.kind = "blank" THEN Break(i + 1)
         ELSE IF line.kind = "bad" THEN Raise(i + 1, JsonLoadsError)
         ELSE LET token == Get(line.obj, "response", "") IN
              IF Get(line.obj, "done", FALSE) THEN Break(i + 1)
              ELSE Yield(i + 1, token)

\* The loop of generate_stream from line i+1 on.
RECURSIVE GenerateLoop(_, _, _)
GenerateLoop(ls, i, e) ==
    IF i >= Len(ls) THEN EndOfLines(i, e)
    ELSE LET line == ls[i + 1] IN
         IF line.kind = "blank" THEN GenerateLoop(ls, i + 1, e)
         ELSE IF line.kind = "bad" THEN Raise(i + 1, JsonLoadsError)
         ELSE LET token == Get(line.obj, "response", "") IN
              IF Get(line.obj, "done", FALSE) THEN Break(i + 1)
              ELSE Yield(i + 1, token)

RECURSIVE ChatLoopBreakFirst(_, _, _)
ChatLoopBreakFirst(ls, i, e) ==
    IF i >= Len(ls) THEN EndOfLines(i, e)
    ELSE LET line == ls[i + 1] IN
         IF line.kind = "blank" THEN ChatLoopBreakFirst(ls, i + 1, e)
         ELSE IF line.kind = "bad" THEN Raise(i + 1, JsonLoadsError)
         ELSE IF Get(line.obj, "done", FALSE) THEN Break(i + 1)
         ELSE Yield(i + 1, line.obj)

\* The loop of chat_stream from line i+1 on.
RECURSIVE ChatLoop(_, _, _)
ChatLoop(ls, i, e) ==
    IF i >= Len(ls) THEN EndOfLines(i, e)
    ELSE LET line == ls[i + 1] IN
         IF line.kind = "blank" THEN ChatLoop(ls, i + 1, e)
         ELSE IF line.kind = "bad" THEN Raise(i + 1, JsonLoadsError)
         ELSE Yield(i + 1, line.obj)

ChatResumeNoBreak(ls, i, e) == ChatLoop(ls, i, e)

\* chat_stream resumed after a yield: the done test of the object just
\* yielded comes first.
ChatResume(ls, i, e) ==
    IF Get(ls[i].obj, "done", FALSE) THEN Break(i) ELSE ChatLoop(ls, i, e)

\* The read loop of the streaming method o, entered at its top.
Loop(o, ls, i, e) ==
    IF o = "generate_stream" THEN GenerateLoop(ls, i, e) ELSE ChatLoop(ls, i, e)

\* Effect of one run of the generator body on the call's state.
Advance(r) ==
    /\ pos' = r.pos
    /\ result' = <<>>
    /\ IF r.ev = "yield"
       THEN /\ yielded' = Append(yielded, r.val)
            /\ pc' = "suspended"
            /\ error' = NoError
            /\ conn' = "open"
       ELSE IF r.ev = "exhausted"
       THEN /\ yielded' = yielded
            /\ pc' = "returned"
            /\ error' = NoError
            /\ conn' = "released"
       ELSE IF r.ev = "break"
       THEN /\ yielded' = yielded
            /\ pc' = "returned"
            /\ error' = NoError
            /\ conn' = Finalize("open", promptFinalize)
       ELSE /\ yielded' = yielded
            /\ pc' = "raised"
            /\ error' = Except(op, r.exc)
            /\ conn' = IF r.exc.cls \in RequestException
                       THEN "released"
                       ELSE Finalize("open", promptFinalize)

\* First next(): build the body, post it with stream=True, raise_for_status,
\* then enter the loop.
StartStream(data, url) ==
    \E oc \in Outcomes, ls \in Streams, e \in Endings :
        /\ request_data' = data
        /\ sent' = Send(sent, HttpRequest("POST", url, TRUE), oc)
        /\ outcome' = oc
        /\ IF oc = "ok"
           THEN /\ lines' = ls
                /\ ending' = e
                /\ Advance(Loop(op, ls, 0, e))
           ELSE /\ lines' = <<>>
                /\ ending' = "eof"
                /\ pos' = 0
                /\ result' = <<>>
                /\ yielded' = yielded
                /\ pc' = "raised"
                /\ error' = Except(op, TransportError(oc))
                /\ conn' = IF oc = "badstatus"
                           THEN Finalize("open", promptFinalize)
                           ELSE ConnAfterExchange(oc)
        /\ params' = ParamsAfter(params, data)
        /\ messages' = MessagesAfter(messages)
        /\ UNCHANGED <<build, op, body, args>>

ResumeStream(r) ==
    /\ Advance(r)
    /\ UNCHANGED <<build, op, params, body, request_data, sent, outcome, lines, ending,
                   args, messages>>

\* One run of the body of generate_stream, up to its next suspension.
GenerateStreamStep ==
    /\ op = "generate_stream"
    /\ \/ /\ pc = "created"
          /\ StartStream(GenerateStreamBody(params), OLLAMA_API_GENERATE)
       \/ /\ pc = "suspended"
          /\ ResumeStream(GenerateLoop(lines, pos, ending))

\* The consumer asks generate_stream for its next element.
generate_stream_next ==
    /\ via = "client"
    /\ GenerateStreamStep
    /\ UNCHANGED <<manager, worker>>
    /\ UNCHANGED <<session, app>>

\* The consumer asks chat_stream for its next element.
chat_stream_next ==
    /\ op = "chat_stream"
    /\ \/ /\ pc = "created"
          /\ StartStream(ChatStreamBody(params), OLLAMA_API_CHAT)
       \/ /\ pc = "suspended"
          /\ ResumeStream(ChatResume(lines, pos, ending))
    /\ UNCHANGED <<manager, worker>>
    /\ UNCHANGED <<session, app>>

\* ------------------------------------------ ModelManager.generate_response
\* Values of the max_tokens argument: None, 0, a positive ceiling.
MaxTokensArgs == {<<>>, <<0>>, <<512>>}

\* params = {}; if max_tokens: params['max_tokens'] = max_tokens
ManagerParams(m) ==
    IF m # <<>> /\ m[1] # 0 THEN [max_tokens |-> m[1]] ELSE EmptyDict

ForwardBuffered(out, before, after, ended) == IF ended THEN after ELSE out

\* for token in generate_stream(...): yield token
\* out is what the manager has handed on, before/after what the client has
\* yielded to it around this step.
Forward(out, before, after, ended) ==
    IF Len(after) > Len(before) THEN Append(out, after[Len(after)]) ELSE out

\* generate_response is a generator too: its body, which makes the params
\* and the generate_stream generator, runs at its first next(); neither
\* sends anything, so both are set up here.
generate_response ==
    /\ CanCall
    /\ \E m \in MaxTokensArgs :
        /\ CreateGenerator("generate_stream", <<ManagerParams(m)>>)
        /\ max_tokens_arg' = m
    /\ via' = "manager"
    /\ delivered' = <<>>
    /\ UNCHANGED worker
    /\ UNCHANGED <<session, app>>

\* The consumer asks generate_response for its next element: the for loop
\* takes one element from generate_stream and yields it; an exception of
\* generate_stream is logged and raised again.
generate_response_next ==
    /\ via = "manager"
    /\ GenerateStreamStep
    /\ delivered' = Forward(delivered, yielded, yielded', pc' \in Ended)
    /\ UNCHANGED <<via, max_tokens_arg, worker>>
    /\ UNCHANGED <<session, app>>

\* ModelResponseThread.run starts: generate_response(model_id, prompt) is
\* called without max_tokens and makes the generator; nothing is sent yet.
run ==
    /\ CanCall
    /\ CreateGenerator("generate_stream", <<ManagerParams(<<>>)>>)
    /\ max_tokens_arg' = <<>>
    /\ via' = "worker"
    /\ delivered' = <<>>
    /\ worker' = RunStart
    /\ UNCHANGED <<session, app>>

\* One turn of the for loop of run: next() on generate_response, then the
\* loop body for the token it got, or the end of the loop (response_received)
\* or the except clause (response_error).
run_next ==
    /\ via = "worker"
    /\ worker.pc = "running"
    /\ GenerateStreamStep
    /\ delivered' = Forward(delivered, yielded, yielded', pc' \in Ended)
    /\ worker' = IF Len(delivered') > Len(delivered)
                 THEN RunToken(worker, delivered'[Len(delivered')])
                 ELSE IF pc' = "raised" THEN RunFailed(worker, ErrorText(error'))
                 ELSE RunDone(worker)
    /\ UNCHANGED <<via, max_tokens_arg>>
    /\ UNCHANGED <<session, app>>

\* The consumer abandons the generator (close() or dropping it): the frame
\* is discarded at the yield it is suspended on; no finally clause runs.
abandon ==
    /\ via # "worker"
    /\ pc \in {"created", "suspended"}
    /\ pc' = "closed"
    /\ conn' = Finalize(conn, promptFinalize)
    /\ UNCHANGED <<build, op, params, request_data, sent, outcome, body, lines,
                   ending, pos, yielded, result, error, args, messages, manager, worker>>
    /\ UNCHANGED <<session, app>>

Next ==
    \/ list_models
    \/ generate
    \/ chat
    \/ generate_stream
    \/ chat_stream
    \/ generate_stream_next
    \/ chat_stream_next
    \/ generate_response
    \/ generate_response_next
    \/ run
    \/ run_next
    \/ abandon

Spec == Init /\ [][Next]_vars
\* ------------------------------------------- concurrent use of one instance
\* Several callers use the same OllamaAPI object from their own threads.  A
\* call is followed in the steps a thread switch can separate: building
\* request_data, the HTTP exchange (for a generator, up to its first yield),
\* and each later next().
SessionOps == {"list_models", "generate", "generate_stream", "chat", "chat_stream"}
SessionParams == {<<>>, <<[temperature |-> 7]>>}
SessionOutcomes == {"ok", "connfail"}
SessionBodies == {JsonLine([response |-> "Hello", done |-> TRUE]), BadLine}
SessionLines ==
    {JsonLine([response |-> "Hel", done |-> FALSE]), JsonLine([done |-> TRUE])}
SessionStreams == SeqsUpTo(SessionLines, MaxSessionLines)
ModelTag == "qwen3:latest"

IsStreamOp(o) == o \in {"generate_stream", "chat_stream"}

\* request_data as the method o builds it from params p.
BodyFor(o, p) ==
    IF o = "list_models" THEN EmptyDict
    ELSE IF o = "generate" THEN GenerateBody(p)
    ELSE IF o = "generate_stream" THEN GenerateStreamBody(p)
    ELSE IF o = "chat" THEN ChatBody(p)
    ELSE ChatStreamBody(p)

\* self.api_models / self.api_generate / self.api_chat as method o reads it.
EndpointOf(inst, o) ==
    IF o = "list_models" THEN inst.api_models
    ELSE IF o \in {"generate", "generate_stream"} THEN inst.api_generate
    ELSE inst.api_chat

SlotShared(i) == 1

\* request_data is a local variable: every call has its own frame.
Slot(i) == i

\* The call record after one run of a generator body.
AdvanceCall(c, r) ==
    IF r.ev = "yield"
    THEN [c EXCEPT !.pos = r.pos, !.yielded = Append(@, r.val), !.pc = "suspended"]
    ELSE IF r.ev \in {"exhausted", "break"}
    THEN [c EXCEPT !.pos = r.pos, !.pc = "returned"]
    ELSE [c EXCEPT !.pos = r.pos, !.pc = "raised", !.error = Except(c.op, r.exc)]

\* The call record after the HTTP exchange: data is posted to url, the
\* server's answer is c.oc with c.body or c.lines.
ExchangeCall(c, url, data, new) ==
    LET c1 == [c EXCEPT !.sent = <<[url |-> url, data |-> data]>>, !.nexts = 1]
    IN IF c.oc # "ok"
       THEN [c1 EXCEPT !.pc = "raised", !.error = Except(c.op, TransportError(c.oc))]
       ELSE IF IsStreamOp(c.op)
       THEN AdvanceCall(c1, Loop(c.op, c.lines, 0, "eof"))
       ELSE IF c.body.kind # "json"
       THEN [c1 EXCEPT !.pc = "raised", !.error = Except(c.op, ResponseJsonError(new))]
       ELSE [c1 EXCEPT !.pc = "returned", !.result = <<ReturnValue(c.op, c.body.obj)>>]

\* The call record after a later next().
NextCall(c) ==
    AdvanceCall([c EXCEPT !.nexts = @ + 1],
                IF c.op = "generate_stream" THEN GenerateLoop(c.lines, c.pos, "eof")
                ELSE ChatResume(c.lines, c.pos, "eof"))

\* Caller i invokes a method; its thread runs up to the request.
session_call(i) ==
    /\ calls[i].pc = "idle"
    /\ \E o \in SessionOps, p \in SessionParams :
        /\ (o = "list_models" => p = <<>>)
        /\ calls' = [calls EXCEPT ![i] = [@ EXCEPT !.pc = "built", !.op = o, !.params = p]]
        /\ frames' = [frames EXCEPT ![Slot(i)] = BodyFor(o, p)]
    /\ UNCHANGED <<self, server_models, changed>>
    /\ UNCHANGED <<single, app>>

\* The answer of the server to list_models.
TagsBody(models) == JsonLine([models |-> models])

\* Caller i's thread performs the HTTP exchange.
session_exchange(i) ==
    /\ calls[i].pc = "built"
    /\ \E oc \in SessionOutcomes, b \in SessionBodies, ls \in SessionStreams :
        /\ (IsStreamOp(calls[i].op) => b = BadLine)
        /\ (~IsStreamOp(calls[i].op) => ls = <<>>)
        /\ (oc # "ok" => b = BadLine /\ ls = <<>>)
        /\ (calls[i].op = "list_models" => b = BadLine)
        /\ LET answer == IF calls[i].op = "list_models" /\ oc = "ok"
                         THEN TagsBody(server_models) ELSE b
               c == [calls[i] EXCEPT !.oc = oc, !.body = answer, !.lines = ls]
           IN calls' = [calls EXCEPT ![i] =
                  ExchangeCall(c, EndpointOf(self, c.op), frames[Slot(i)], requestsNew)]
    /\ frames' = [frames EXCEPT ![Slot(i)] = EmptyDict]
    /\ changed' = [changed EXCEPT ![i] = FALSE]
    /\ UNCHANGED <<self, server_models>>
    /\ UNCHANGED <<single, app>>

\* Caller i asks its generator for the next element.
session_next(i) ==
    /\ calls[i].pc = "suspended"
    /\ calls' = [calls EXCEPT ![i] = NextCall(calls[i])]
    /\ UNCHANGED <<self, frames, server_models, changed>>
    /\ UNCHANGED <<single, app>>

\* "ollama pull" / "ollama rm" run by someone: the server's tags change.
server_install ==
    /\ server_models = <<>>
    /\ server_models' = <<ModelTag>>
    /\ changed' = [i \in 1..NCalls |-> calls[i].op = "list_models" /\ calls[i].pc = "returned"]
    /\ UNCHANGED <<self, calls, frames>>
    /\ UNCHANGED <<single, app>>

server_remove ==
    /\ server_models # <<>>
    /\ server_models' = <<>>
    /\ changed' = [i \in 1..NCalls |-> calls[i].op = "list_models" /\ calls[i].pc = "returned"]
    /\ UNCHANGED <<self, calls, frames>>
    /\ UNCHANGED <<single, app>>

SessionNext ==
    \/ \E i \in 1..NCalls : session_call(i)
    \/ \E i \in 1..NCalls : session_exchange(i)
    \/ \E i \in 1..NCalls : session_next(i)
    \/ server_install
    \/ server_remove

\* The connection and the parse-error class are not what a session is about:
\* one build is enough.
SessionStart == Init /\ promptFinalize /\ requestsNew

SpecSession == SessionStart /\ [][SessionNext]_vars

\* ---------------------------------------------------------- the chat panel
\* ChatPanel with its ModelResponseThread workers (src/ui/chat_panel.py).
\* The slots run on the GUI thread, one queued event at a time; the workers
\* run on their own threads and post their signals to the GUI thread's
\* queue.  What generate_response does is followed in Spec; here a worker
\* gets tokens, the end of the stream or an exception from it.
Thread(model_id, prompt) ==
    [model_id |-> model_id, prompt |-> prompt, full_response |-> <<>>,
     emitted |-> <<>>, pc |-> "running", label |-> "alive", text |-> <<>>]

Event(name, k, payload) == [sig |-> name, of |-> k, payload |-> payload]

RestoredLabelOnly == [send_button |-> FALSE, generation_label |-> FALSE]

\* send_button.setEnabled(True); generation_label.setVisible(False)
Restored == [send_button |-> TRUE, generation_label |-> FALSE]

\* set_active_model as MainWindow.on_run_model calls it for a model it
\* found installed: neither looks at the state of the chat.
SetActiveModel(id) ==
    /\ active_model' = <<id>>
    /\ send_button' = TRUE
    /\ system_message' = ActivatedMessage(id)
    /\ UNCHANGED <<generation_label, chat_messages, response_threads, qt_events, aborted>>

set_active_model ==
    /\ ~aborted
    /\ \E id \in ChatModels : SetActiveModel(id)
    /\ UNCHANGED <<single, session, catalog>>

\* A click on the send button.  Replacing self.response_thread drops the
\* only reference to the previous thread object; if that thread still runs,
\* destroying it ends the process (qFatal) unless its running frame keeps it
\* alive.
on_send_clicked ==
    /\ ~aborted
    /\ send_button
    /\ Len(response_threads) < MaxSends
    /\ \E message_text \in Prompts :
        IF active_model = <<>> \/ message_text = ""
        THEN UNCHANGED panel
        ELSE LET k == Len(response_threads) + 1 IN
             /\ chat_messages' = Append(chat_messages, Message("user", Str(message_text), k))
             /\ send_button' = FALSE
             /\ generation_label' = TRUE
             /\ response_threads' =
                    Append(response_threads, Thread(active_model[1], message_text))
             /\ aborted' \in IF k > 1 /\ response_threads[k - 1].pc = "running"
                             THEN BOOLEAN ELSE {FALSE}
             /\ UNCHANGED <<active_model, system_message, qt_events>>
    /\ UNCHANGED <<single, session, catalog>>

\* The signal a worker emitted last, as the event queued for the GUI thread.
Posted(k, r) == Event(r.emitted[Len(r.emitted)].sig, k, r.emitted[Len(r.emitted)].payload)

\* What a turn of the loop of run can get from generate_response.
Turns(r) ==
    LET n == Len(r.emitted)
        more == {st[n + 1] : st \in {x \in ChatStreams : Len(x) > n}}
    IN {RunDone(r)} \cup {RunFailed(r, e) : e \in ChatErrors}
       \cup {RunToken(r, t) : t \in more}

\* Worker k takes one turn of its loop.  When run returns in a thread whose
\* object the panel no longer refers to, the object is destroyed while the
\* thread has not finished.
thread_step(k) ==
    /\ ~aborted
    /\ k \in DOMAIN response_threads
    /\ response_threads[k].pc = "running"
    /\ \E r \in Turns(response_threads[k]) :
        /\ response_threads' = [response_threads EXCEPT ![k] = r]
        /\ qt_events' = Append(qt_events, Posted(k, r))
        /\ aborted' \in IF r.pc = "finished" /\ k < Len(response_threads)
                        THEN BOOLEAN ELSE {FALSE}
    /\ UNCHANGED <<active_model, send_button, generation_label, chat_messages,
                   system_message>>
    /\ UNCHANGED <<single, session, catalog>>

\* on_token_received(ai_message, token): the label of worker e.of gets the
\* token; on a label that was deleted label.text() raises RuntimeError in
\* the slot, which ends the process with PyQt >= 5.5 and is printed before.
on_token_received(e) ==
    IF response_threads[e.of].label = "deleted"
    THEN /\ aborted' \in BOOLEAN
         /\ UNCHANGED <<response_threads, chat_messages, send_button, generation_label,
                        system_message>>
    ELSE /\ response_threads' = [response_threads EXCEPT ![e.of].text = @ \o e.payload]
         /\ UNCHANGED <<aborted, chat_messages, send_button, generation_label,
                        system_message>>

on_response_received(e) ==
    /\ chat_messages' = Append(chat_messages, Message("assistant", e.payload, e.of))
    /\ send_button' = Restored.send_button
    /\ generation_label' = Restored.generation_label
    /\ UNCHANGED <<aborted, response_threads, system_message>>

on_response_error(e) ==
    /\ system_message' = ErrorMessage(e.payload)
    /\ send_button' = Restored.send_button
    /\ generation_label' = Restored.generation_label
    /\ UNCHANGED <<aborted, response_threads, chat_messages>>

\* The deferred delete of the label of worker e.of.
DeferredDelete(e) ==
    /\ response_threads' = [response_threads EXCEPT ![e.of].label = "deleted"]
    /\ UNCHANGED <<aborted, chat_messages, send_button, generation_label, system_message>>

\* The GUI thread takes the next event of its queue and runs its slot.
qt_dispatch ==
    /\ ~aborted
    /\ qt_events # <<>>
    /\ LET e == Head(qt_events) IN
        /\ qt_events' = Tail(qt_events)
        /\ IF e.sig = "token_received" THEN on_token_received(e)
           ELSE IF e.sig = "response_received" THEN on_response_received(e)
           ELSE IF e.sig = "response_error" THEN on_response_error(e)
           ELSE DeferredDelete(e)
    /\ UNCHANGED active_model
    /\ UNCHANGED <<single, session, catalog>>

\* clear_chat: deleteLater() on every widget of the chat area (the labels of
\* the answers among them; a label is deleted when its deferred delete is
\* taken from the queue), messages = [], one system message.
clear_chat ==
    /\ ~aborted
    /\ LET n == Len(response_threads)
           all == [k \in 1..n |-> Event("DeferredDelete", k, <<>>)]
           alive(e) == response_threads[e.of].label = "alive"
       IN /\ qt_events' = qt_events \o SelectSeq(all, alive)
          /\ response_threads' =
                 [k \in 1..n |-> IF response_threads[k].label = "alive"
                                 THEN [response_threads[k] EXCEPT !.label = "doomed"]
                                 ELSE response_threads[k]]
    /\ chat_messages' = <<>>
    /\ system_message' = ClearedMessage(active_model)
    /\ UNCHANGED <<active_model, send_button, generation_label, aborted>>
    /\ UNCHANGED <<single, session, catalog>>

ChatNext ==
    \/ set_active_model
    \/ on_send_clicked
    \/ \E k \in 1..MaxSends : thread_step(k)
    \/ qt_dispatch
    \/ clear_chat

\* The chat panel is followed with the server and the build left aside.
ChatStart == Init /\ promptFinalize /\ requestsNew

SpecChat == ChatStart /\ [][ChatNext]_vars

\* ----------------------------------------- model list, manager and installs
\* MainWindow, ModelListWidget and ModelManager (src/ui/main_window.py,
\* src/ui/model_list.py, src/models/model_manager.py): the handlers of the
\* model list and of the Models menu run on the GUI thread; every
\* install_model starts a thread that runs the install command as a child
\* process and calls the callbacks it was given from that thread.
Replies == {"Yes", "No"}
CallbackOutcomes == {"returns", "raises"}

\* refresh_installed_models called by `by`, list_models answering a.
RefreshBy(by, a) ==
    LET r == Refresh(installed_models, a)
    IN /\ installed_models' = r.installed
       /\ last_refresh' = [ok |-> r.ok, by |-> by]

InstallThread(id) ==
    [id |-> id, pc |-> "start", child |-> "none", todo_out |-> 0, todo_err |-> 0,
     rc |-> 0, out |-> 0, err |-> 0, events |-> <<>>]

\* on_install_model for a model: the confirmation dialog, then install_model
\* if the user agrees: the thread is made and started.
on_install_model(id) ==
    \E reply \in IF Len(installs) < MaxInstalls THEN Replies ELSE {"No"} :
        IF reply = "Yes"
        THEN installs' = Append(installs, InstallThread(id))
        ELSE UNCHANGED installs

\* A click on an item of the list: model_selected goes to the main window,
\* the buttons follow is_model_installed.
on_item_clicked ==
    /\ ~aborted
    /\ \E id \in ModelIds, a \in ListAnswers(ollama_tags) :
        /\ selected' = <<id>>
        /\ current_model' = <<id>>
        /\ RefreshBy("is_model_installed", a)
        /\ install_button' = (id \notin DOMAIN installed_models')
        /\ run_button' = (id \in DOMAIN installed_models')
    /\ UNCHANGED <<ollama_tags, installs, model_items>>
    /\ UNCHANGED <<single, session, panel>>

\* A click on the install button: the widget of the selected model is put
\* in installing state, then install_model is emitted to on_install_model.
on_install_clicked ==
    /\ ~aborted
    /\ install_button
    /\ IF selected = <<>>
       THEN UNCHANGED <<model_items, installs>>
       ELSE /\ model_items' = [model_items EXCEPT ![selected[1]].installing = TRUE]
            /\ on_install_model(selected[1])
    /\ UNCHANGED <<ollama_tags, installed_models, last_refresh, selected, current_model,
                   install_button, run_button>>
    /\ UNCHANGED <<single, session, panel>>

\* Models menu, "install the selected model": on_install_model(current_model).
menu_install ==
    /\ ~aborted
    /\ IF current_model = <<>>
       THEN UNCHANGED installs
       ELSE on_install_model(current_model[1])
    /\ UNCHANGED <<ollama_tags, installed_models, last_refresh, model_items, selected,
                   current_model, install_button, run_button>>
    /\ UNCHANGED <<single, session, panel>>

\* refresh_model_list: the list is emptied (nothing stays selected) and
\* filled again from get_installed_models().
RefreshModelList(a) ==
    /\ RefreshBy("get_installed_models", a)
    /\ model_items' = Items(installed_models')
    /\ selected' = <<>>

\* The refresh button, the toolbar and the File menu.
refresh_models ==
    /\ ~aborted
    /\ \E a \in ListAnswers(ollama_tags) : RefreshModelList(a)
    /\ UNCHANGED <<ollama_tags, installs, current_model, install_button, run_button>>
    /\ UNCHANGED <<single, session, panel>>

\* on_run_model for a model: if is_model_installed says no, the user is
\* offered to install it; otherwise the model is activated in the chat.
on_run_model(id) ==
    \E a \in ListAnswers(ollama_tags) :
        /\ RefreshBy("is_model_installed", a)
        /\ IF id \notin DOMAIN installed_models'
           THEN /\ \E reply \in Replies :
                    IF reply = "Yes" THEN on_install_model(id) ELSE UNCHANGED installs
                /\ UNCHANGED panel
           ELSE /\ SetActiveModel(id)
                /\ UNCHANGED installs

\* A click on the run button.
on_run_clicked ==
    /\ ~aborted
    /\ run_button
    /\ IF selected = <<>>
       THEN UNCHANGED <<installed_models, last_refresh, installs, panel>>
       ELSE on_run_model(selected[1])
    /\ UNCHANGED <<ollama_tags, model_items, selected, current_model, install_button,
                   run_button>>
    /\ UNCHANGED <<single, session>>

\* Models menu, "run the selected model": on_run_model(current_model).
menu_run ==
    /\ ~aborted
    /\ IF current_model = <<>>
       THEN UNCHANGED <<installed_models, last_refresh, installs, panel>>
       ELSE on_run_model(current_model[1])
    /\ UNCHANGED <<ollama_tags, model_items, selected, current_model, install_button,
                   run_button>>
    /\ UNCHANGED <<single, session>>

\* What one install step leaves alone: the client, the chat panel's widgets
\* and what the user selected.
InstallFrame ==
    UNCHANGED <<single, session, active_model, send_button, generation_label, chat_messages,
                system_message, response_threads, qt_events, current_model, install_button,
                run_button>>

\* The callbacks MainWindow passes to install_model touch widgets from the
\* install thread, which Qt does not define: the call works or the process
\* dies.  A callback that raises did not get that far.
OffThread(went) ==
    IF went = "returns" THEN aborted' \in BOOLEAN ELSE UNCHANGED aborted

\* install_error.emit and error_callback, once.
ErrorGroup(events) == events \o <<"install_error", "error_callback">>

\* ... and a second time from the except clause when error_callback raised.
ErrorGroups(events, went) ==
    IF went = "raises" THEN ErrorGroup(ErrorGroup(events)) ELSE ErrorGroup(events)

\* subprocess.Popen(install_command.split(), stdout=PIPE, stderr=PIPE): the
\* child starts with some output to write and an exit code to end with, or
\* Popen raises and the except clause reports the error.
install_popen(k) ==
    /\ installs[k].pc = "start"
    /\ \E started \in BOOLEAN :
        IF started
        THEN /\ \E o \in 0..MaxOutput, e \in 0..MaxOutput, rc \in {0, 1} :
                 /\ o + e <= MaxOutput
                 /\ installs' = [installs EXCEPT ![k] =
                        [@ EXCEPT !.pc = "reading", !.child = "running",
                                  !.todo_out = o, !.todo_err = e, !.rc = rc]]
             /\ UNCHANGED aborted
        ELSE /\ installs' = [installs EXCEPT ![k] =
                    [@ EXCEPT !.pc = "done", !.events = ErrorGroup(@)]]
             /\ \E went \in CallbackOutcomes : OffThread(went)
    /\ UNCHANGED <<ollama_tags, installed_models, last_refresh, model_items, selected>>
    /\ InstallFrame

\* One pass of the loop with a line in the stdout pipe: readline takes it,
\* progress_callback gets it; if the callback raises the except clause
\* reports an error and the thread ends.
install_read(k) ==
    /\ installs[k].pc = "reading"
    /\ installs[k].out > 0
    /\ \E went \in CallbackOutcomes :
        /\ installs' = [installs EXCEPT ![k] =
               IF went = "raises"
               THEN [@ EXCEPT !.out = @ - 1, !.pc = "done", !.events = ErrorGroup(@)]
               ELSE [@ EXCEPT !.out = @ - 1]]
        /\ IF went = "raises"
           THEN \E again \in CallbackOutcomes : OffThread(again)
           ELSE OffThread(went)
    /\ UNCHANGED <<ollama_tags, installed_models, last_refresh, model_items, selected>>
    /\ InstallFrame

\* readline returns '' at end of file and poll() gives the exit code: the
\* loop ends.  Exit code 0: refresh_installed_models().  Otherwise stderr is
\* read and the error group runs.
install_finish(k) ==
    /\ installs[k].pc = "reading"
    /\ installs[k].out = 0
    /\ installs[k].child = "exited"
    /\ IF installs[k].rc = 0
       THEN /\ \E a \in ListAnswers(ollama_tags) : RefreshBy("install_model", a)
            /\ installs' = [installs EXCEPT ![k] =
                   [@ EXCEPT !.pc = "installed", !.events = Append(@, "refresh")]]
            /\ UNCHANGED aborted
       ELSE /\ \E went \in CallbackOutcomes :
                /\ installs' = [installs EXCEPT ![k] =
                       [@ EXCEPT !.pc = "done", !.err = 0,
                                 !.events = ErrorGroups(@, went)]]
                /\ IF went = "raises"
                   THEN \E again \in CallbackOutcomes : OffThread(again)
                   ELSE OffThread(went)
            /\ UNCHANGED <<installed_models, last_refresh>>
    /\ UNCHANGED <<ollama_tags, model_items, selected>>
    /\ InstallFrame

\* After the refresh: model_installed.emit, then success_callback, which is
\* on_install_success and rebuilds the list; if the callback raises the
\* except clause runs the error group.
install_report(k) ==
    /\ installs[k].pc = "installed"
    /\ \E went \in CallbackOutcomes :
        IF went = "returns"
        THEN /\ installs' = [installs EXCEPT ![k] =
                    [@ EXCEPT !.pc = "done",
                              !.events = @ \o <<"model_installed", "success_callback">>]]
             /\ \E a \in ListAnswers(ollama_tags) : RefreshModelList(a)
             /\ OffThread(went)
        ELSE /\ installs' = [installs EXCEPT ![k] =
                    [@ EXCEPT !.pc = "done",
                              !.events = ErrorGroup(@ \o <<"model_installed",
                                                           "success_callback">>)]]
             /\ \E again \in CallbackOutcomes : OffThread(again)
             /\ UNCHANGED <<installed_models, last_refresh, model_items, selected>>
    /\ UNCHANGED ollama_tags
    /\ InstallFrame

installation_thread(k) ==
    /\ ~aborted
    /\ k \in DOMAIN installs
    /\ \/ install_popen(k)
       \/ install_read(k)
       \/ install_finish(k)
       \/ install_report(k)

\* The child process writes a line to its stdout pipe; it blocks while the
\* pipe is full.
child_stdout(k) ==
    /\ installs[k].todo_out > 0
    /\ installs[k].out < PipeCapacity
    /\ installs' = [installs EXCEPT ![k] = [@ EXCEPT !.todo_out = @ - 1, !.out = @ + 1]]
    /\ UNCHANGED ollama_tags

\* The same for its stderr pipe, which nothing reads while the loop runs.
child_stderr(k) ==
    /\ installs[k].todo_err > 0
    /\ installs[k].err < PipeCapacity
    /\ installs' = [installs EXCEPT ![k] = [@ EXCEPT !.todo_err = @ - 1, !.err = @ + 1]]
    /\ UNCHANGED ollama_tags

\* The child has written everything and exits; with exit code 0 the model
\* the command pulled is in the server's list from now on.
child_exit(k) ==
    /\ installs[k].todo_out = 0
    /\ installs[k].todo_err = 0
    /\ installs' = [installs EXCEPT ![k] = [@ EXCEPT !.child = "exited"]]
    /\ ollama_tags' = IF installs[k].rc = 0
                      THEN ollama_tags \cup {Pulled(ModelData(installs[k].id))}
                      ELSE ollama_tags

child_process(k) ==
    /\ ~aborted
    /\ k \in DOMAIN installs
    /\ installs[k].child = "running"
    /\ \/ child_stdout(k)
       \/ child_stderr(k)
       \/ child_exit(k)
    /\ UNCHANGED <<installed_models, last_refresh, model_items, selected, aborted>>
    /\ InstallFrame

InstallNext ==
    \/ on_item_clicked
    \/ on_install_clicked
    \/ menu_install
    \/ refresh_models
    \/ on_run_clicked
    \/ menu_run
    \/ \E k \in 1..MaxInstalls : installation_thread(k)
    \/ \E k \in 1..MaxInstalls : child_process(k)

InstallStart == SessionInit /\ CallInit /\ promptFinalize /\ requestsNew /\ AppStartup(InitialTags)

SpecInstall == InstallStart /\ [][InstallNext]_vars

\* Both the install thread and the child process are scheduled by the
\* operating system: each keeps running while it has a step to take.
FairInstall ==
    /\ InstallStart
    /\ [][InstallNext]_vars
    /\ \A k \in 1..MaxInstalls : WF_vars(installation_thread(k)) /\ WF_vars(child_process(k))

\* ------------------------------------------------------------------ claims
Streaming == op \in {"generate_stream", "chat_stream"}
IsJson(line) == line.kind = "json"
IsDone(o) == Get(o, "done", FALSE)
IsDoneLine(line) == IsJson(line) /\ IsDone(line.obj)
IsFragmentLine(line) == IsJson(line) /\ ~IsDone(line.obj)

\* ls is k fragment lines followed by a done object (and then anything).
FragmentsThenDone(ls, k) ==
    /\ k + 1 <= Len(ls)
    /\ \A i \in 1..k : IsFragmentLine(ls[i])
    /\ IsDoneLine(ls[k + 1])

Fragment(line) == Get(line.obj, "response", "")

\* C1: for a stream of fragments F1..Fn followed by a done object,
\* generate_stream produces F1..Fn in that order (a prefix of it while the
\* consumer is still iterating), never raises, and produces nothing for the
\* done object.
C1_GenerateStreamOrdering ==
    (op = "generate_stream" /\ outcome = "ok") =>
        \A k \in 0..Len(lines) :
            FragmentsThenDone(lines, k) =>
                /\ pc # "raised"
                /\ Len(yielded) <= k
                /\ yielded = [i \in 1..Len(yielded) |-> Fragment(lines[i])]
                /\ (pc = "returned" => Len(yielded) = k)

C1_Witness ==
    /\ op = "generate_stream"
    /\ pc = "returned"
    /\ lines = <<JsonLine([response |-> "Hel", done |-> FALSE]),
                 JsonLine([response |-> "lo", done |-> FALSE]),
                 JsonLine([response |-> "", done |-> TRUE])>>
    /\ yielded = <<"Hel", "lo">>

\* A done object is among the lines taken from the transport.
DoneRead == Streaming /\ \E i \in 1..pos : IsDoneLine(lines[i])

\* C2: once generate_stream or chat_stream has read a done object, no step
\* produces another element or takes another line, and the sequence is
\* over: generate_stream has returned, chat_stream returns at the next
\* request of its consumer.
C2_StopsAtDone ==
    [][DoneRead => /\ yielded' = yielded
                   /\ pos' = pos
                   /\ pc' \in Ended
                   /\ (op = "generate_stream" => pc = "returned")]_vars

C2_Witness ==
    /\ DoneRead
    /\ op = "chat_stream"
    /\ pc = "returned"
    /\ pos < Len(lines)
    /\ IsFragmentLine(lines[pos + 1])

\* Parsed objects of the JSON lines of ls, in order.
RECURSIVE JsonObjects(_)
JsonObjects(ls) ==
    IF ls = <<>> THEN <<>>
    ELSE IF IsJson(Head(ls)) THEN <<Head(ls).obj>> \o JsonObjects(Tail(ls))
    ELSE JsonObjects(Tail(ls))

\* C3: chat_stream yields the parsed object of every non-blank line taken
\* from the transport, in order; only the last element can have done true,
\* and the sequence ends only at that object or at the end of the stream.
C3_ChatStreamElements ==
    op = "chat_stream" =>
        /\ yielded = JsonObjects(SubSeq(lines, 1, pos))
        /\ \A i \in 1..(Len(yielded) - 1) : ~IsDone(yielded[i])
        /\ (pc = "returned" =>
               \/ pos = Len(lines)
               \/ (yielded # <<>> /\ IsDone(yielded[Len(yielded)])))

C3_Witness ==
    /\ op = "chat_stream"
    /\ pc = "returned"
    /\ pos < Len(lines)
    /\ yielded = <<[response |-> "Hel", done |-> FALSE], [done |-> TRUE]>>

HasKey(p, k) == p # <<>> /\ k \in DOMAIN p[1]

\* C4: the body sent by generate and generate_stream carries the caller's
\* max_tokens when params has that key, and MAX_TOKENS otherwise.
C4_MaxTokensDefault ==
    (op \in {"generate", "generate_stream"} /\ sent # <<>>) =>
        /\ "max_tokens" \in DOMAIN request_data
        /\ request_data["max_tokens"] =
               IF HasKey(params, "max_tokens") THEN params[1]["max_tokens"]
               ELSE MAX_TOKENS

C4_Witness ==
    /\ op = "generate_stream"
    /\ sent # <<>>
    /\ params = <<[max_tokens |-> 0]>>
    /\ request_data["max_tokens"] = 0

\* C5: when the connection cannot be made or the status is not 2xx, every
\* operation raises the wrapping Exception of its except clause with the
\* transport error text in its message, returns nothing and yields nothing.
C5_TransportErrorWrapped ==
    outcome \in {"connfail", "badstatus"} =>
        /\ pc = "raised"
        /\ error.type = "Exception"
        /\ error.prefix = Prefix(op)
        /\ error.text = (IF outcome = "connfail" THEN "connection refused"
                         ELSE "500 Server Error")
        /\ result = <<>>
        /\ yielded = <<>>

C5_Witness ==
    /\ op = "chat"
    /\ outcome = "badstatus"
    /\ pc = "raised"
    /\ error.text = "500 Server Error"

\* The call failed on a body or a line that is not JSON.
MalformedSeen ==
    /\ outcome = "ok"
    /\ pc = "raised"
    /\ IF Streaming THEN pos > 0 /\ lines[pos].kind = "bad" ELSE body.kind = "bad"

\* The exception class a caller gets for a refused connection.
ServiceUnavailableType == "Exception"

\* C6: a body or line that is not JSON fails the call with an exception the
\* caller can tell apart from the one raised for transport failures.
C6_MalformedDistinct ==
    MalformedSeen => error.type # ServiceUnavailableType

\* C7: every request carries the configured timeout, and a timed-out request
\* fails with an exception the caller can tell apart from the one raised for
\* connection and status failures.
C7_TimeoutDistinct ==
    /\ \A i \in 1..Len(sent) : sent[i].timeout = REQUEST_TIMEOUT
    /\ (outcome = "timeout" => pc = "raised" /\ error.type # ServiceUnavailableType)

\* C8: a call never issues more than one HTTP request, and a call that ran
\* (it returned, raised, or is suspended at a yield) issued exactly one.
C8_SingleAttempt ==
    /\ Len(sent) <= 1
    /\ (pc \in {"returned", "raised", "suspended"} => Len(sent) = 1)
    /\ (outcome # "none" => Len(sent) = 1)

C8_Witness ==
    /\ op = "generate_stream"
    /\ outcome = "timeout"
    /\ pc = "raised"
    /\ Len(sent) = 1

\* Element the operation produces for a fragment line.
ElementOf(o, line) == IF o = "generate_stream" THEN Fragment(line) ELSE line.obj

C10_ConnectionReleased ==
    pc \in Ended => conn # "open"
IsPrefix(s, t) == Len(s) <= Len(t) /\ s = SubSeq(t, 1, Len(s))
NotBlank(line) == line.kind # "blank"

\* Everything the streaming method o yields for the stream ls when its
\* consumer iterates to the end (fresh: the loop has not been entered yet).
RECURSIVE Produced(_, _, _, _, _)
Produced(o, ls, i, e, fresh) ==
    LET r == IF fresh THEN Loop(o, ls, i, e)
             ELSE IF o = "generate_stream" THEN GenerateLoop(ls, i, e)
             ELSE ChatResume(ls, i, e)
    IN IF r.ev = "yield" THEN <<r.val>> \o Produced(o, ls, r.pos, e, FALSE)
       ELSE <<>>

\* C14: the sequence generate_stream or chat_stream produces for a stream is
\* the one it produces for that stream with the blank lines removed: a blank
\* line gives no element and does not end the stream.
C14_BlankLinesSkipped ==
    (Streaming /\ outcome = "ok") =>
        LET full == Produced(op, SelectSeq(lines, NotBlank), 0, ending, TRUE)
        IN /\ IsPrefix(yielded, full)
           /\ (pc \in {"returned", "raised"} => yielded = full)

C14_Witness ==
    /\ op = "generate_stream"
    /\ pc = "returned"
    /\ lines = <<JsonLine([response |-> "Hel", done |-> FALSE]),
                 BlankLine,
                 JsonLine([response |-> "lo", done |-> FALSE])>>
    /\ yielded = <<"Hel", "lo">>

\* C15: the body sent by generate_stream and chat_stream has stream = true
\* whatever params the caller passed.
C15_StreamFlagTrue ==
    (Streaming /\ sent # <<>>) =>
        "stream" \in DOMAIN request_data /\ request_data["stream"] = TRUE

\* C16: the body sent by chat and chat_stream carries the caller's
\* max_tokens when params has that key, and MAX_TOKENS otherwise.
C16_ChatMaxTokensDefault ==
    (op \in {"chat", "chat_stream"} /\ sent # <<>>) =>
        /\ "max_tokens" \in DOMAIN request_data
        /\ request_data["max_tokens"] =
               IF HasKey(params, "max_tokens") THEN params[1]["max_tokens"]
               ELSE MAX_TOKENS

\* C18: a successful chat returns the parsed response object with every
\* field the server sent; a successful generate returns only the value of
\* its response field.
C18_ChatReturnsWholeObject ==
    pc = "returned" =>
        /\ (op = "chat" => result = <<body.obj>>)
        /\ (op = "generate" =>
               result = <<IF "response" \in DOMAIN body.obj
                          THEN body.obj["response"] ELSE "">>)

C18_Witness ==
    /\ op = "chat"
    /\ pc = "returned"
    /\ result = <<[message |-> "hi", done |-> TRUE]>>

ParamKeys(p) == IF p = <<>> THEN {} ELSE DOMAIN p[1]

\* C19: the body sent by generate is {model, prompt} plus every key of params
\* with the caller's value, plus max_tokens = MAX_TOKENS exactly when params
\* has no max_tokens; nothing else is added, dropped or changed.
C19_VerbatimMerge ==
    (op = "generate" /\ sent # <<>>) =>
        /\ DOMAIN request_data = {"model", "prompt", "max_tokens"} \cup ParamKeys(params)
        /\ request_data["model"] = "m"
        /\ request_data["prompt"] = "p"
        /\ \A k \in ParamKeys(params) : request_data[k] = params[1][k]
        /\ ("max_tokens" \notin ParamKeys(params) => request_data["max_tokens"] = MAX_TOKENS)

C19_Witness ==
    /\ op = "generate"
    /\ sent # <<>>
    /\ params = <<[temperature |-> 7, stream |-> FALSE]>>
    /\ request_data = [model |-> "m", prompt |-> "p", temperature |-> 7,
                       stream |-> FALSE, max_tokens |-> 2048]
\* C11: whenever generate_stream or chat_stream is suspended at a yield, the
\* last line taken from the transport is the one whose element was just
\* handed over, every non-blank line taken so far has its element with the
\* consumer, and generate_response has passed each of them on.
C11_ConsumerPaced ==
    (Streaming /\ pc = "suspended") =>
        /\ pos >= 1
        /\ IsJson(lines[pos])
        /\ yielded # <<>>
        /\ yielded[Len(yielded)] = ElementOf(op, lines[pos])
        /\ Len(yielded) = Len(SelectSeq(SubSeq(lines, 1, pos), IsJson))
        /\ (via = "manager" => delivered = yielded)

C11_Witness ==
    /\ via = "manager"
    /\ pc = "suspended"
    /\ delivered = <<"Hel">>
    /\ pos = 1
    /\ Len(lines) = 3

\* C17: once a call has been made, the caller's params and messages hold
\* what they held when it was made.
C17_ArgumentsUntouched ==
    pc # "idle" => params = args.params /\ messages = args.messages

C17_Witness ==
    /\ op = "generate"
    /\ pc = "returned"
    /\ params = <<[temperature |-> 7]>>
    /\ "max_tokens" \in DOMAIN request_data

\* C20: generate_response(model_id, prompt, max_tokens=m) makes the client
\* send max_tokens = m for every m given, 0 included, and MAX_TOKENS when
\* none is given.
C20_ManagerMaxTokens ==
    (via = "manager" /\ sent # <<>>) =>
        /\ "max_tokens" \in DOMAIN request_data
        /\ request_data["max_tokens"] =
               IF max_tokens_arg # <<>> THEN max_tokens_arg[1] ELSE MAX_TOKENS
\* What a call with the inputs of c has after k runs of its body when no
\* other call is in progress.
RECURSIVE AloneAfter(_, _, _)
AloneAfter(c, k, new) ==
    IF k = 1
    THEN ExchangeCall([c EXCEPT !.pc = "built", !.nexts = 0, !.pos = 0, !.sent = <<>>,
                                !.yielded = <<>>, !.result = <<>>, !.error = NoError],
                      EndpointOf(InitSelf, c.op), BodyFor(c.op, c.params), new)
    ELSE NextCall(AloneAfter(c, k - 1, new))

\* C12: under every interleaving of the calls of several callers on one
\* instance, each call has sent the request, and has the result, elements and
\* error, that it has when run alone; the instance's fields never change.
C12_CallsIndependent ==
    /\ self = InitSelf
    /\ \A i \in 1..NCalls :
           calls[i].nexts >= 1 => calls[i] = AloneAfter(calls[i], calls[i].nexts, requestsNew)

C12_Witness ==
    /\ calls[1].op = "generate_stream"
    /\ calls[1].pc = "suspended"
    /\ calls[1].yielded = <<"Hel">>
    /\ calls[2].op = "chat"
    /\ calls[2].pc = "returned"
    /\ calls[2].sent[1].data = [model |-> "m", messages |-> Messages, temperature |-> 7]

Listed(c) == c.op = "list_models" /\ c.pc = "returned"

RequiredField(o) == IF o = "list_models" THEN "models" ELSE "response"

\* The server answered list_models / generate with valid JSON that lacks
\* the required field.
FieldMissing ==
    /\ op \in {"list_models", "generate"}
    /\ outcome = "ok"
    /\ body.kind = "json"
    /\ RequiredField(op) \notin DOMAIN body.obj

\* C21: a body that is valid JSON but lacks the field the operation requires
\* (models for list_models, response for generate) makes the call fail
\* instead of returning a value.
C21_MissingFieldFails ==
    FieldMissing => pc = "raised" /\ result = <<>>

TerminalSignals == {"response_received", "response_error"}

\* The payloads of the token_received signals in e, concatenated in order.
RECURSIVE TokensJoined(_)
TokensJoined(e) ==
    IF e = <<>> THEN <<>>
    ELSE IF Head(e).sig = "token_received" THEN Head(e).payload \o TokensJoined(Tail(e))
    ELSE TokensJoined(Tail(e))

\* The signals in e are token_received, one per element of d, in order.
TokensOf(e, d) ==
    /\ Len(e) = Len(d)
    /\ \A i \in 1..Len(e) : e[i] = Signal("token_received", Str(d[i]))

\* C23: a run of ModelResponseThread emits token_received for every element
\* it got from generate_response, in order, and then, once, exactly one
\* terminal signal: response_received carrying the concatenation of the
\* tokens when the generator ended, response_error and nothing else when it
\* raised, also after tokens were emitted.
C23_WorkerProtocol ==
    via = "worker" =>
        LET e == worker.emitted
            n == Len(e)
        IN IF worker.pc = "running"
           THEN /\ pc \notin Ended
                /\ TokensOf(e, delivered)
           ELSE /\ pc \in {"returned", "raised"}
                /\ n = Len(delivered) + 1
                /\ TokensOf(SubSeq(e, 1, n - 1), delivered)
                /\ e[n].sig = IF pc = "raised" THEN "response_error" ELSE "response_received"
                /\ e[n].sig = "response_received" =>
                       e[n].payload = TokensJoined(SubSeq(e, 1, n - 1))
                /\ e[n].sig = "response_error" => e[n].payload = ErrorText(error)

\* A run that emitted three tokens and then the whole response.
C23_Witness ==
    /\ via = "worker"
    /\ worker.pc = "finished"
    /\ Len(worker.emitted) = 4
    /\ worker.emitted[1].payload = <<"Hel">>
    /\ worker.emitted[4] = Signal("response_received", <<"Hel", "lo", "lo">>)

\* on_send_clicked has accepted a message in this step.
Accepted == Len(response_threads') = Len(response_threads) + 1

\* The GUI thread runs, in this step, the slot of a queued signal among sigs.
Delivering(sigs) ==
    /\ ~aborted
    /\ qt_events # <<>>
    /\ qt_events' = Tail(qt_events)
    /\ Head(qt_events).sig \in sigs

Running == {k \in DOMAIN response_threads : response_threads[k].pc = "running"}

\* Messages were sent, every worker has finished and every signal has been
\* delivered.
Quiet == /\ ~aborted
         /\ response_threads # <<>>
         /\ Running = {}
         /\ qt_events = <<>>

\* C22: accepting a message disables the send button and shows the
\* generating label; the delivery of a worker's terminal signal, response or
\* error, enables the button and hides the label, and for an error leaves
\* the error text as the newest system message; once all workers are done
\* and their signals delivered the button is enabled and the label hidden.
C22_SendRestored ==
    /\ [](Quiet => send_button /\ ~generation_label)
    /\ [][/\ Accepted => ~send_button' /\ generation_label'
          /\ Delivering(TerminalSignals) => send_button' /\ ~generation_label'
          /\ Delivering({"response_error"}) =>
                 system_message' = ErrorMessage(Head(qt_events).payload)]_vars

\* A generation failed after a token; its error has been delivered and shown.
C22_Witness ==
    /\ Quiet
    /\ send_button /\ ~generation_label
    /\ \E k \in DOMAIN response_threads :
        LET e == response_threads[k].emitted IN
        /\ Len(e) = 2
        /\ e[2].sig = "response_error"
        /\ system_message = ErrorMessage(e[2].payload)

\* C24: the chat panel never has two workers running at once, whatever the
\* order of sends, model activations, clear_chat and worker completions.
C24_OneGeneration ==
    ~aborted => Cardinality(Running) <= 1

\* C25: in ChatPanel.messages every assistant entry directly follows the
\* user entry of the send that started its generation; an answer in flight
\* when clear_chat ran does not enter the cleared history.
C25_HistoryConsistent ==
    \A i \in DOMAIN chat_messages :
        chat_messages[i].role = "assistant" =>
            /\ i > 1
            /\ chat_messages[i - 1].role = "user"
            /\ chat_messages[i - 1].of = chat_messages[i].of

\* C26: a refresh_installed_models that returns False leaves installed_models
\* exactly the mapping it was before the call.
C26_RefreshFailureAtomic ==
    [][~last_refresh'.ok => installed_models' = installed_models]_vars

Count(events, e) == Cardinality({i \in DOMAIN events : events[i] = e})
Before(events, a, b) ==
    \A i, j \in DOMAIN events : events[i] = a /\ events[j] = b => i < j

\* C27: for every install_model call either the success group (refresh,
\* model_installed, success_callback) or the error group (install_error,
\* error_callback) happens, never both, each callback at most once, and the
\* success group only after the child process ended with exit code 0.
C27_ReportedOnce ==
    \A k \in DOMAIN installs :
        LET t == installs[k]
            ev == t.events
        IN /\ Count(ev, "success_callback") <= 1
           /\ Count(ev, "error_callback") <= 1
           /\ ~(Count(ev, "success_callback") > 0 /\ Count(ev, "error_callback") > 0)
           /\ ~(Count(ev, "model_installed") > 0 /\ Count(ev, "install_error") > 0)
           /\ t.pc = "done" =>
                  Count(ev, "success_callback") + Count(ev, "error_callback") > 0
           /\ Count(ev, "success_callback") > 0 =>
                  /\ t.child = "exited" /\ t.rc = 0
                  /\ Before(ev, "refresh", "model_installed")
                  /\ Before(ev, "model_installed", "success_callback")
           /\ Before(ev, "install_error", "error_callback")

Reported(k) ==
    /\ k \in DOMAIN installs
    /\ Count(installs[k].events, "success_callback")
         + Count(installs[k].events, "error_callback") > 0

\* C28: every install_model call's thread eventually leaves its reading
\* loop and calls the success or the error callback, whatever the child
\* writes to stdout and stderr (as long as the process itself lives).
C28_InstallTerminates ==
    \A k \in 1..MaxInstalls :
        [](k \in DOMAIN installs => <>(aborted \/ Reported(k)))

\* C29: once an install of a supported model has ended with exit code 0,
\* the installed models have been refreshed, and the last refresh succeeded
\* with the server listing the name the command pulled, the model's id is
\* among the installed models, and a list built by refresh_model_list marks
\* it installed.
C29_InstalledAfterInstall ==
    \A k \in DOMAIN installs :
        LET t == installs[k]
        IN (/\ Count(t.events, "refresh") > 0
            /\ last_refresh.ok
            /\ Pulled(ModelData(t.id)) \in ollama_tags)
           => /\ t.id \in DOMAIN installed_models
              /\ last_refresh.by = "get_installed_models"
                    => model_items[t.id].is_installed

\* C30: a model list item is in installing status only while an installation
\* of that model is in progress.
C30_InstallingIsReal ==
    \A id \in ModelIds :
        model_items[id].installing =>
            \E k \in DOMAIN installs : installs[k].id = id /\ installs[k].pc # "done"
====
